---------------------------- MODULE Spec2Model ----------------------------
(***************************************************************************)
(* Model of src/src/main.rs: the pendulum simulation (struct Pendulum) and *)
(* the window handler (struct MyWindowHandler) that drives it from frames, *)
(* key presses and pointer events.                                         *)
(*                                                                         *)
(* f32 values are modelled bit for bit: a record [neg, bits] holds the     *)
(* sign and the other 31 bits of the IEEE-754 binary32 encoding, and the   *)
(* operations round as the hardware does (to nearest, ties to even), with  *)
(* signed zeros, subnormals and infinities; every NaN is the one quiet     *)
(* NaN.  sin, cos and atan2 are the C library's sinf, cosf and atan2f,     *)
(* which the f32 methods of the standard library call, computed by the     *)
(* algorithms of glibc (sinf and cosf in binary64 intermediates, atan2f in *)
(* binary32); sinf and cosf are the variant the library selects on a       *)
(* processor with fused multiply-add, where every a * b + c of the         *)
(* polynomials and of reduce_fast is rounded once.                         *)
(***************************************************************************)
EXTENDS Integers, Sequences, FiniteSets, TLC

\* p, grabbed, mouse_x, mouse_y: the fields of MyWindowHandler (font left out).
\* History variables, read by no action's computation of the program state:
\*   frames, keys   how many frames were drawn and keys pressed
\*   moved    a pointer move arrived since the last frame and since the last
\*            pointer-down that passed its hit test
\*   followed grabbed is true and a frame was drawn since it became true
VARIABLES p, grabbed, mouse_x, mouse_y, frames, keys, moved, followed

vars == <<p, grabbed, mouse_x, mouse_y, frames, keys, moved, followed>>

-----------------------------------------------------------------------------
(* Integers                                                                *)

Abs(n) == IF n < 0 THEN -n ELSE n
Max(a, b) == IF a >= b THEN a ELSE b
Pow2(n) == 2 ^ n

\* the number of bits of n >= 0
RECURSIVE BitLen(_)
BitLen(n) == IF n = 0 THEN 0 ELSE 1 + BitLen(n \div 2)

\* n with its lowest bit set when bits were lost below it
Jam(n, sticky) == IF sticky /\ n % 2 = 0 THEN n + 1 ELSE n

\* round to nearest, ties to even: whether the quotient q is rounded up
\* for the remainder rem of a division, half being half the divisor
RoundsUp(rem, half, q) == rem > half \/ (rem = half /\ q % 2 = 1)

\* n / 2^sh, rounded to nearest, ties to even; 1 <= sh <= 30
ShiftRound(n, sh) ==
    n \div Pow2(sh)
        + (IF RoundsUp(n % Pow2(sh), Pow2(sh - 1), n \div Pow2(sh)) THEN 1 ELSE 0)

-----------------------------------------------------------------------------
(* f32: IEEE-754 binary32, round to nearest, ties to even                  *)

F32(neg, bits) == [neg |-> neg, bits |-> bits]

\* the weight of the exponent field, and of the implicit bit of a mantissa
ExpBit == Pow2(23)
InfBits == 255 * ExpBit

Inf(neg) == F32(neg, InfBits)
NaN == F32(FALSE, InfBits + Pow2(22))

IsNaN(a) == a.bits > InfBits
IsInf(a) == a.bits = InfBits
IsFin(a) == a.bits < InfBits
IsZero(a) == a.bits = 0

\* a finite value is Mant(a) * 2^Expo(a)
Mant(a) == IF a.bits >= ExpBit THEN ExpBit + (a.bits % ExpBit) ELSE a.bits
Expo(a) == IF a.bits >= ExpBit THEN a.bits \div ExpBit - 150 ELSE -149

\* the same for a finite value other than 0, with 2^23 <= m < 2^24
Subnorm(bits, sh) == [m |-> bits * Pow2(sh), e |-> -149 - sh]
Norm(a) ==
    IF a.bits >= ExpBit THEN [m |-> Mant(a), e |-> Expo(a)]
    ELSE Subnorm(a.bits, 24 - BitLen(a.bits))

\* n / 2^sh rounded, for any sh
Shifted(n, sh) ==
    IF sh <= 0 THEN n * Pow2(-sh)
    ELSE IF sh > 30 THEN (IF sh = 31 /\ n > Pow2(30) THEN 1 ELSE 0)
    ELSE ShiftRound(n, sh)

\* the encoding of a magnitude whose exponent field and mantissa add up to
\* bits: a carry out of the mantissa raises the exponent, up to infinity
Encode(neg, bits) == IF bits >= InfBits THEN Inf(neg) ELSE F32(neg, bits)

\* the f32 nearest to n * 2^e, given the exponent lsb of its last bit: a
\* magnitude of 2^128 or more (lsb >= 105) is an infinity
PackAt(neg, n, e, lsb) ==
    IF lsb + 149 >= 254 THEN Inf(neg)
    ELSE Encode(neg, (lsb + 149) * ExpBit + Shifted(n, lsb - e))

\* the f32 nearest to n * 2^e for 0 <= n < 2^31, where the lowest bit of n
\* may stand for bits lost below it (Jam) if n has 26 bits or more
Pack(neg, n, e) ==
    IF n = 0 THEN F32(neg, 0)
    ELSE PackAt(neg, n, e, Max(e + BitLen(n) - 24, -149))

\* an integer as f32
Px(n) == Pack(n < 0, Abs(n), 0)

FNeg(a) == IF IsNaN(a) THEN NaN ELSE F32(~a.neg, a.bits)
FAbs(a) == IF IsNaN(a) THEN NaN ELSE F32(FALSE, a.bits)

\* a < b
FLt(a, b) ==
    /\ ~IsNaN(a)
    /\ ~IsNaN(b)
    /\ (IF a.neg THEN -a.bits ELSE a.bits) < (IF b.neg THEN -b.bits ELSE b.bits)

\* the mantissa m of the smaller operand at the exponent of the larger, d
\* above its own
Aligned(m, d) ==
    IF d > 30 THEN 1 ELSE Jam(m \div Pow2(d), m % Pow2(d) # 0)

\* x + y for finite x, y other than 0 with |x| >= |y|
AddOrdered(x, y) ==
    Pack(x.neg /\ (x.neg = y.neg \/ x.bits # y.bits),
         Mant(x) * 8
            + (IF x.neg = y.neg THEN 1 ELSE -1)
                * Aligned(Mant(y) * 8, Expo(x) - Expo(y)),
         Expo(x) - 3)

\* a + b
FAdd(a, b) ==
    IF IsNaN(a) \/ IsNaN(b) THEN NaN
    ELSE IF IsInf(a) THEN (IF IsInf(b) /\ a.neg # b.neg THEN NaN ELSE a)
    ELSE IF IsInf(b) THEN b
    ELSE IF IsZero(a) THEN (IF IsZero(b) THEN F32(a.neg /\ b.neg, 0) ELSE b)
    ELSE IF IsZero(b) THEN a
    ELSE AddOrdered(IF a.bits >= b.bits THEN a ELSE b,
                    IF a.bits >= b.bits THEN b ELSE a)

\* a - b
FSub(a, b) == FAdd(a, FNeg(b))

\* the product of two mantissas, from the sum high of the limbs above 2^24
\* and the sum low of those below
MulPack(neg, high, low, e) ==
    Pack(neg,
         Jam((high + low \div Pow2(24)) * 64 + (low % Pow2(24)) \div Pow2(18),
             low % Pow2(18) # 0),
         e)

\* the same from the products of the 12-bit halves of the mantissas
MulSum(neg, hi, mid, lo, e) ==
    MulPack(neg, hi + mid \div 4096, (mid % 4096) * 4096 + lo, e)

MulNorm(neg, x, y) ==
    MulSum(neg,
           (x.m \div 4096) * (y.m \div 4096),
           (x.m \div 4096) * (y.m % 4096) + (x.m % 4096) * (y.m \div 4096),
           (x.m % 4096) * (y.m % 4096),
           x.e + y.e + 18)

\* a * b
FMul(a, b) ==
    IF IsNaN(a) \/ IsNaN(b) THEN NaN
    ELSE IF IsInf(a) \/ IsInf(b)
         THEN (IF IsZero(a) \/ IsZero(b) THEN NaN ELSE Inf(a.neg # b.neg))
    ELSE IF IsZero(a) \/ IsZero(b) THEN F32(a.neg # b.neg, 0)
    ELSE MulNorm(a.neg # b.neg, Norm(a), Norm(b))

\* long division: `steps` more bits of the quotient q with remainder r < d
RECURSIVE LongDiv(_, _, _, _)
LongDiv(q, r, d, steps) ==
    IF steps = 0 THEN [q |-> q, r |-> r]
    ELSE LongDiv(2 * q + (2 * r) \div d, (2 * r) % d, d, steps - 1)

DivPack(neg, qr, e) == Pack(neg, Jam(qr.q * 2, qr.r # 0), e)

DivNorm(neg, x, y) ==
    DivPack(neg, LongDiv(x.m \div y.m, x.m % y.m, y.m, 26), x.e - y.e - 27)

\* a / b
FDiv(a, b) ==
    IF IsNaN(a) \/ IsNaN(b) THEN NaN
    ELSE IF IsInf(a) THEN (IF IsInf(b) THEN NaN ELSE Inf(a.neg # b.neg))
    ELSE IF IsInf(b) THEN F32(a.neg # b.neg, 0)
    ELSE IF IsZero(b) THEN (IF IsZero(a) THEN NaN ELSE Inf(a.neg # b.neg))
    ELSE IF IsZero(a) THEN F32(a.neg # b.neg, 0)
    ELSE DivNorm(a.neg # b.neg, Norm(a), Norm(b))

\* the integer square root of n, 2^24 <= n < 2^26, by Newton's iteration
\* from s >= sqrt(n)
RECURSIVE Isqrt(_, _)
Isqrt(n, s) ==
    IF (s + n \div s) \div 2 >= s THEN s ELSE Isqrt(n, (s + n \div s) \div 2)

\* sqrt(n * 2^26) from its integer part s and the remainder r, which is
\* negative when s is one too large
SqrtPack(s, r, e) ==
    Pack(FALSE,
         IF r < 0 THEN Jam(2 * (s - 1), r + 2 * s - 1 # 0) ELSE Jam(2 * s, r # 0),
         e)

\* 13 more bits of the root s1 of n, from t = (n - s1 * s1) * 2^13
SqrtStep(s1, t, e) ==
    SqrtPack(s1 * 8192 + t \div (2 * s1),
             (t % (2 * s1)) * 8192 - (t \div (2 * s1)) * (t \div (2 * s1)),
             e)

SqrtRoot(n, s1, e) == SqrtStep(s1, (n - s1 * s1) * 8192, e)

\* sqrt(m * 2^e), the exponent made even
SqrtNorm(x) ==
    SqrtRoot(IF x.e % 2 = 0 THEN x.m * 4 ELSE x.m * 2,
             Isqrt(IF x.e % 2 = 0 THEN x.m * 4 ELSE x.m * 2, 8192),
             (IF x.e % 2 = 0 THEN x.e - 2 ELSE x.e - 1) \div 2 - 14)

\* a.sqrt()
FSqrt(a) ==
    IF IsNaN(a) THEN NaN
    ELSE IF IsZero(a) THEN a
    ELSE IF a.neg THEN NaN
    ELSE IF IsInf(a) THEN a
    ELSE SqrtNorm(Norm(a))

\* a.powi(2)
powi2(a) == FMul(a, a)

\* a decimal literal n/d as f32
Dec(n, d) == FDiv(Px(n), Px(d))

\* std::f32::consts::PI
PI == F32(FALSE, 1078530011)

-----------------------------------------------------------------------------
(* f64: the binary64 intermediates of the C library's sinf and cosf.  A    *)
(* value is q * 2^e with q = q[1] + q[2]/4096 + ... + q[5]/4096^4, and     *)
(* 16 <= q[1] < 32 (53 bits) unless it is 0; q[6] is 0 in a value and      *)
(* holds the bits below the 53rd in an intermediate.                       *)

D64(neg, q, e) == [neg |-> neg, q |-> q, e |-> e]

Zero6 == <<0, 0, 0, 0, 0, 0>>

DNeg(a) == [a EXCEPT !.neg = ~a.neg]
DNegIf(flip, a) == IF flip THEN DNeg(a) ELSE a

\* limb i of q, 0 outside of it
Limb(q, i) == IF i \in DOMAIN q THEN q[i] ELSE 0

\* the tuple of the first n values of the function f
RECURSIVE Limbs(_, _)
Limbs(f, n) == IF n = 0 THEN <<>> ELSE Append(Limbs(f, n - 1), f[n])

\* c with the carries and borrows of its limbs i, i - 1, ..., 2 propagated
\* upwards
RECURSIVE CarryFrom(_, _)
CarryFrom(c, i) ==
    IF i = 1 THEN c
    ELSE CarryFrom([c EXCEPT ![i] = c[i] % 4096,
                             ![i - 1] = c[i - 1] + c[i] \div 4096],
                   i - 1)

\* q / 2^(12 * k + r), truncated, and whether the truncation lost bits
ShrBy(q, k, r) ==
    Limbs([i \in DOMAIN q |->
            Limb(q, i - k) \div Pow2(r)
                + (Limb(q, i - k - 1) % Pow2(r)) * Pow2(12 - r)],
          Len(q))

Shr(q, n) == ShrBy(q, n \div 12, n % 12)

Lost(q, n) ==
    \/ \E i \in DOMAIN q : i > Len(q) - n \div 12 /\ q[i] # 0
    \/ Limb(q, Len(q) - n \div 12) % Pow2(n % 12) # 0

\* q * 2^(12 * k + r), for q < 32 / 2^(12 * k + r)
ShlBy(q, k, r) ==
    Limbs([i \in DOMAIN q |->
            (IF i = 1 THEN Limb(q, 1 + k) * Pow2(r)
             ELSE (Limb(q, i + k) * Pow2(r)) % 4096)
                + Limb(q, i + k + 1) \div Pow2(12 - r)],
          Len(q))

Shl(q, n) == ShlBy(q, n \div 12, n % 12)

\* the shift that brings the leading bit of q # 0, q < 16, to 16 <= q[1]
LeadAt(q, i) == 12 * (i - 1) + 5 - BitLen(q[i])
LeadShift(q) ==
    LeadAt(q, CHOOSE i \in DOMAIN q :
                q[i] # 0 /\ \A j \in 1..(i - 1) : q[j] = 0)

\* the f64 of 53 bits and exponent e, 32 its overflow by rounding
Renorm(neg, r, e) ==
    IF r[1] = 32 THEN D64(neg, <<16, 0, 0, 0, 0, 0>>, e + 1) ELSE D64(neg, r, e)

\* the f64 nearest to n * 2^e for 16 <= n[1] < 32, where st says that n is
\* a truncation: the bits below the 53rd are n[6] and the limbs after it
RoundLimbs(neg, n, st, e) ==
    Renorm(neg,
           IF \/ n[6] > 2048
              \/ /\ n[6] = 2048
                 /\ \/ st
                    \/ n[5] % 2 = 1
                    \/ \E i \in DOMAIN n : i > 6 /\ n[i] # 0
           THEN CarryFrom(<<n[1], n[2], n[3], n[4], n[5] + 1, 0>>, 6)
           ELSE <<n[1], n[2], n[3], n[4], n[5], 0>>,
           e)

\* the f64 nearest to q * 2^e, q of six limbs or more, where sticky says
\* that q is a truncation
Round53(neg, q, sticky, e) ==
    IF \A i \in DOMAIN q : q[i] = 0 THEN D64(FALSE, Zero6, 0)
    ELSE IF q[1] >= 32
    THEN RoundLimbs(neg, Shr(q, BitLen(q[1]) - 5),
                    sticky \/ Lost(q, BitLen(q[1]) - 5), e + BitLen(q[1]) - 5)
    ELSE RoundLimbs(neg, Shl(q, LeadShift(q)), sticky, e - LeadShift(q))

\* the limbs of weight 4096^(1 - k) of the product of x and y
Col(x, y, k) ==
    Limb(x, 1) * Limb(y, k) + Limb(x, 2) * Limb(y, k - 1)
        + Limb(x, 3) * Limb(y, k - 2) + Limb(x, 4) * Limb(y, k - 3)
        + Limb(x, 5) * Limb(y, k - 4)

\* the product of the mantissas of a and b, # 0, exactly, in n limbs
Product(a, b, n) ==
    CarryFrom(Limbs([k \in 1..n |-> Col(a.q, b.q, k)], n), n)

\* a * b
DMul(a, b) ==
    IF a.q = Zero6 \/ b.q = Zero6 THEN D64(a.neg # b.neg, Zero6, 0)
    ELSE Round53(a.neg # b.neg, Product(a, b, 9), FALSE, a.e + b.e)

\* |a| < |b|, neither 0, both with 16 <= q[1] < 32
DMagLess(a, b) ==
    \/ a.e < b.e
    \/ /\ a.e = b.e
       /\ \E i \in DOMAIN a.q :
            a.q[i] < b.q[i] /\ \A j \in 1..(i - 1) : a.q[j] = b.q[j]

\* x + sg * y for |x| >= |y|, s being the mantissa of y at the exponent of x
\* and st whether that lost bits
AddShifted(x, s, st, sg) ==
    Round53(x.neg,
            CarryFrom(Limbs([i \in DOMAIN s |->
                                x.q[i] + sg * s[i]
                                    - (IF i = Len(s) /\ sg = -1 /\ st
                                       THEN 1 ELSE 0)],
                            Len(s)),
                      Len(s)),
            st, x.e)

AddMag(x, y) ==
    AddShifted(x, Shr(y.q, x.e - y.e), Lost(y.q, x.e - y.e),
               IF x.neg = y.neg THEN 1 ELSE -1)

\* the f64 nearest to x + y, for x and y of as many limbs, neither 0
AddWide(x, y) ==
    AddMag(IF DMagLess(x, y) THEN y ELSE x, IF DMagLess(x, y) THEN x ELSE y)

\* the limbs of the wide intermediate of a fused multiply-add: the 106 bits
\* of a product and the shifts of an addition fit
FmaLimbs == 12

\* the exact product whose mantissa is c, brought to 16 <= q[1] < 32
WideOf(neg, c, e) ==
    D64(neg, Shr(c, BitLen(c[1]) - 5), e + BitLen(c[1]) - 5)

\* a in FmaLimbs limbs
Widen(a) ==
    D64(a.neg, Limbs([i \in 1..FmaLimbs |-> Limb(a.q, i)], FmaLimbs), a.e)

\* fma(a, b, c): a * b + c, rounded once
DFma(a, b, c) ==
    IF a.q = Zero6 \/ b.q = Zero6
    THEN (IF c.q = Zero6 THEN D64((a.neg # b.neg) /\ c.neg, Zero6, 0) ELSE c)
    ELSE IF c.q = Zero6 THEN DMul(a, b)
    ELSE AddWide(WideOf(a.neg # b.neg, Product(a, b, FmaLimbs), a.e + b.e),
                 Widen(c))

\* (double) of an f32 that is finite
DFromNorm(neg, x) ==
    D64(neg,
        <<x.m \div Pow2(19), (x.m \div 128) % 4096, (x.m % 128) * 32, 0, 0, 0>>,
        x.e + 19)

DFromF32(a) ==
    IF IsZero(a) THEN D64(a.neg, Zero6, 0) ELSE DFromNorm(a.neg, Norm(a))

\* (float) of an f64
DToF32(a) ==
    Pack(a.neg,
         Jam(((a.q[1] * 4096 + a.q[2]) * 4096 + a.q[3]) * 2,
             a.q[4] # 0 \/ a.q[5] # 0),
         a.e - 25)

\* (double) of an integer, |n| < 2^17
DInt(n) == Round53(n < 0, <<Abs(n), 0, 0, 0, 0, 0>>, FALSE, 0)

\* the integer part of limb i of a
Part(a, i) ==
    IF a.e >= 12 * (i - 1) THEN a.q[i] * Pow2(a.e - 12 * (i - 1))
    ELSE IF a.e < 12 * (i - 2) THEN 0
    ELSE a.q[i] \div Pow2(12 * (i - 1) - a.e)

\* the integer part of |a| < 2^31
DTrunc(a) == Part(a, 1) + Part(a, 2) + Part(a, 3) + Part(a, 4) + Part(a, 5)

-----------------------------------------------------------------------------
(* f32::sin and f32::cos: the C library's sinf and cosf (glibc 2.28 and    *)
(* later, sysdeps/ieee754/flt-32/s_sinf.c, s_cosf.c, s_sincosf.h)          *)

\* __sincosf_table[0]: 2/pi * 2^24, pi/2, and the coefficients of the
\* polynomials for cos and sin on [-pi/4, pi/4]
HpiInv == D64(FALSE, <<20, 1523, 109, 3228, 2179, 0>>, 19)
Hpi == D64(FALSE, <<25, 543, 2900, 1090, 3352, 0>>, -4)
CosC0 == D64(FALSE, <<16, 0, 0, 0, 0, 0>>, -4)
CosC1 == D64(TRUE, <<31, 4095, 4093, 198, 540, 0>>, -6)
CosC2 == D64(FALSE, <<21, 1365, 993, 104, 3865, 0>>, -9)
CosC3 == D64(TRUE, <<22, 3080, 2024, 2467, 1437, 0>>, -14)
CosC4 == D64(FALSE, <<25, 2356, 770, 1983, 2243, 0>>, -20)
SinS1 == D64(TRUE, <<21, 1365, 1113, 2394, 1539, 0>>, -7)
SinS2 == D64(FALSE, <<17, 263, 1541, 560, 3012, 0>>, -11)
SinS3 == D64(TRUE, <<25, 2382, 2871, 1868, 3876, 0>>, -17)

\* pi63 of reduce_large: pi/2 * 2^-62
Pi63 == [Hpi EXCEPT !.e = Hpi.e - 62]

\* __inv_pio4, as the bytes of 4/pi its 32-bit words are windows of
InvPio4 ==
    <<0, 0, 0, 162, 249, 131, 110, 78, 68, 21, 41, 252, 39, 87, 209, 245, 52,
      221, 192, 219, 98, 149, 153, 60, 67, 144, 65>>

\* sinf_poly, n even: sin(x) for x2 = x * x and x3 = x * x2
SinPoly3(x, x2, x3) ==
    DFma(DMul(x3, x2), DFma(x2, SinS3, SinS2), DFma(x3, SinS1, x))

SinPoly(x, x2) == SinPoly3(x, x2, DMul(x, x2))

\* sinf_poly, n odd: cos(x) for x2 = x * x and x4 = x2 * x2
CosPoly4(x2, x4) ==
    DFma(DMul(x4, x2), DFma(x2, CosC4, CosC3),
         DFma(x4, CosC2, DFma(x2, CosC1, CosC0)))

CosPoly(x2) == CosPoly4(x2, DMul(x2, x2))

\* sinf_poly(x * s, x2, p, n) with s = p->sign[k & 3] and p the table
\* k & 2 selects, whose cos coefficients are those of table 0 negated
sinf_poly(x, x2, k, n) ==
    IF n % 2 = 0 THEN SinPoly(DNegIf(k % 4 \in {1, 2}, x), x2)
    ELSE DNegIf(k % 4 \in {2, 3}, CosPoly(x2))

\* n of reduce_fast: ((int32_t) r + 0x800000) >> 24 for t = |(int32_t) r|
Quadrant(neg, t) ==
    IF neg THEN (Pow2(23) - t) \div Pow2(24) ELSE (t + Pow2(23)) \div Pow2(24)

\* x - n * pi/2; s is the sign sinf and cosf add to n: none
ReduceBy(x, n) ==
    [n |-> n, s |-> 0, x |-> DFma(DNeg(DInt(n)), Hpi, x)]

\* reduce_fast: n = the multiple of pi/2 nearest to x, and x - n * pi/2
reduce_fast(x) == ReduceBy(x, Quadrant(x.neg, DTrunc(DMul(x, HpiInv))))

\* limb w (0 the lowest) of the 96 bits of 4/pi that start at byte j of
\* __inv_pio4
PioLimb(j, w) ==
    IF w < 0 \/ w > 7 THEN 0
    ELSE IF w % 2 = 1
    THEN InvPio4[j + 10 - 3 * (w \div 2)] * 16
            + InvPio4[j + 11 - 3 * (w \div 2)] \div 16
    ELSE (InvPio4[j + 11 - 3 * (w \div 2)] % 16) * 256
            + InvPio4[j + 12 - 3 * (w \div 2)]

\* limb w of xi times those 96 bits, before carries
PioCol(xi, j, w) ==
    (xi % 4096) * PioLimb(j, w)
        + ((xi \div 4096) % 4096) * PioLimb(j, w - 1)
        + (xi \div Pow2(24)) * PioLimb(j, w - 2)

\* res0 - (n << 62) as a double times pi63, for res0 = q * 2^52 without
\* its two highest bits; minus says that it is negative
LargeBy(n, minus, q, s) ==
    [n |-> n + (IF minus THEN 1 ELSE 0),
     s |-> s,
     x |-> DMul(Round53(minus,
                        IF minus
                        THEN CarryFrom(<<1024 - q[1], -q[2], -q[3], -q[4],
                                         -q[5], -q[6]>>, 6)
                        ELSE q,
                        FALSE, 52),
                Pi63)]

\* the same from the limbs w of the product, w[1] the highest
LargeOf(w, s) ==
    LargeBy((w[1] % 4096) \div 1024, (w[1] \div 512) % 2 = 1,
            <<w[1] % 1024, w[2], w[3], w[4], w[5], (w[6] \div 256) * 256>>, s)

\* the mantissa of the f32 of bits `bits`, shifted by the low three bits of
\* its exponent
Xi(bits) == (ExpBit + (bits % ExpBit)) * Pow2((bits \div ExpBit) % 8)

\* reduce_large, for |x| >= 120: bits 32..95 of the product of the
\* mantissa and 96 bits of 4/pi are x * 4/pi modulo 4; s is the sign sinf
\* and cosf add to n
reduce_large(a) ==
    LargeOf(CarryFrom(Limbs([k \in 1..8 |->
                                PioCol(Xi(a.bits), (a.bits \div Pow2(26)) % 16,
                                       8 - k)],
                            8),
                      8),
            IF a.neg THEN 1 ELSE 0)

\* the reduction of the argument in the three ranges of sinf and cosf
Reduced(a) ==
    IF a.bits < 1061158912 THEN [n |-> 0, s |-> 0, x |-> DFromF32(a)]
    ELSE IF a.bits < 1123024896 THEN reduce_fast(DFromF32(a))
    ELSE reduce_large(a)

\* sinf_poly as sinf (odd = 0) and cosf (odd = 1) apply it
ReducedPoly(red, odd) ==
    sinf_poly(red.x, DMul(red.x, red.x), red.n + red.s, red.n + odd)

\* a.sin()
FSin(a) ==
    IF ~IsFin(a) THEN NaN
    ELSE IF a.bits < 964689920 THEN a
    ELSE DToF32(ReducedPoly(Reduced(a), 0))

\* a.cos()
FCos(a) ==
    IF ~IsFin(a) THEN NaN
    ELSE IF a.bits < 964689920 THEN Px(1)
    ELSE DToF32(ReducedPoly(Reduced(a), 1))

-----------------------------------------------------------------------------
(* f32::atan2: the C library's atan2f and atanf (glibc before 2.41,        *)
(* sysdeps/ieee754/flt-32/e_atan2f.c, s_atanf.c), in f32 arithmetic        *)

\* atanhi, atanlo: atan(0.5), atan(1.0), atan(1.5), atan(inf), high and low
AtanHi ==
    <<F32(FALSE, 1055744824), F32(FALSE, 1061752794), F32(FALSE, 1065064542),
      F32(FALSE, 1070141402)>>
AtanLo ==
    <<F32(FALSE, 833369961), F32(FALSE, 857874792), F32(FALSE, 856952756),
      F32(FALSE, 866263400)>>

\* aT[0], aT[2], ..., aT[10] and aT[1], aT[3], ..., aT[9]
ATEven ==
    <<F32(FALSE, 1051372203), F32(FALSE, 1041385765), F32(FALSE, 1035611758),
      F32(FALSE, 1032350517), F32(FALSE, 1028381273), F32(FALSE, 1015376343)>>
ATOdd ==
    <<F32(TRUE, 1045220557), F32(TRUE, 1038323256), F32(TRUE, 1033734037),
      F32(TRUE, 1030680939), F32(TRUE, 1024827937)>>

\* pi_o_4, pi_o_2 and pi_lo of atan2f
PiO4 == F32(FALSE, 1061752795)
PiO2 == F32(FALSE, 1070141403)
PiLo == F32(TRUE, 867941678)

\* c[i] + w * (c[i + 1] + w * (... + w * c[Len(c)]))
RECURSIVE Horner(_, _, _)
Horner(w, c, i) ==
    IF i = Len(c) THEN c[i] ELSE FAdd(c[i], FMul(w, Horner(w, c, i + 1)))

\* x * (s1 + s2) of atanf, for z = x * x and w = z * z
AtanSum(x, z, w) ==
    FMul(x, FAdd(FMul(z, Horner(w, ATEven, 1)), FMul(w, Horner(w, ATOdd, 1))))

AtanSquare(x, z) == AtanSum(x, z, FMul(z, z))

AtanPoly(x) == AtanSquare(x, FMul(x, x))

\* the argument reduction of atanf for |x| >= 0.4375: id, and the reduced
\* x as a quotient
AtanTerms(ax) ==
    IF ax.bits < 1060110336
    THEN [id |-> 1, num |-> FSub(FMul(Px(2), ax), Px(1)), den |-> FAdd(Px(2), ax)]
    ELSE IF ax.bits < 1066926080
    THEN [id |-> 2, num |-> FSub(ax, Px(1)), den |-> FAdd(ax, Px(1))]
    ELSE IF ax.bits < 1075576832
    THEN [id |-> 3, num |-> FSub(ax, Dec(3, 2)),
          den |-> FAdd(Px(1), FMul(Dec(3, 2), ax))]
    ELSE [id |-> 4, num |-> Px(-1), den |-> ax]

AtanQuotient(t) == [id |-> t.id, x |-> FDiv(t.num, t.den)]

AtanReduce(ax) == AtanQuotient(AtanTerms(ax))

\* atanhi[id] - ((x * (s1 + s2) - atanlo[id]) - x), with the sign of the
\* argument
AtanOf(neg, red) ==
    F32(neg,
        FSub(AtanHi[red.id],
             FSub(FSub(AtanPoly(red.x), AtanLo[red.id]), red.x)).bits)

\* atanf(a)
FAtan(a) ==
    IF IsNaN(a) THEN NaN
    ELSE IF a.bits >= 1275068416
    THEN F32(a.neg, FAdd(AtanHi[4], AtanLo[4]).bits)
    ELSE IF a.bits < 822083584 THEN a
    ELSE IF a.bits < 1054867456 THEN FSub(a, AtanPoly(a))
    ELSE AtanOf(a.neg, AtanReduce(FAbs(a)))

\* atan2f for finite y, x other than 0, given z = atan(|y / x|)
Atan2Of(y, x, z) ==
    IF ~x.neg THEN F32(y.neg, z.bits)
    ELSE IF ~y.neg THEN FSub(PI, FSub(z, PiLo))
    ELSE FSub(FSub(z, PiLo), PI)

\* z of atan2f, k being the difference of the exponents of y and x
Atan2Z(y, x, k) ==
    IF k > 60 THEN FAdd(PiO2, FMul(Dec(1, 2), PiLo))
    ELSE IF x.neg /\ k < -60 THEN Px(0)
    ELSE FAtan(FAbs(FDiv(y, x)))

\* y.atan2(x)
FAtan2(y, x) ==
    IF IsNaN(x) \/ IsNaN(y) THEN NaN
    ELSE IF x = Px(1) THEN FAtan(y)
    ELSE IF IsZero(y) THEN (IF x.neg THEN F32(y.neg, PI.bits) ELSE y)
    ELSE IF IsZero(x) THEN F32(y.neg, PiO2.bits)
    ELSE IF IsInf(x)
    THEN (IF IsInf(y)
          THEN F32(y.neg, (IF x.neg THEN FMul(Px(3), PiO4) ELSE PiO4).bits)
          ELSE IF x.neg THEN F32(y.neg, PI.bits) ELSE F32(y.neg, 0))
    ELSE IF IsInf(y) THEN F32(y.neg, PiO2.bits)
    ELSE Atan2Of(y, x, Atan2Z(y, x, (y.bits - x.bits) \div ExpBit))

-----------------------------------------------------------------------------
(* mod vector                                                              *)

Vector(x, y) == [x |-> x, y |-> y]

\* Vector::set, as the value of the vector afterwards
set(v, x, y) == [v EXCEPT !.x = x, !.y = y]

\* Vector::add, as the value of the vector afterwards
add(v, other) == [v EXCEPT !.x = FAdd(v.x, other.x), !.y = FAdd(v.y, other.y)]

-----------------------------------------------------------------------------
(* struct Pendulum                                                         *)

\* Pendulum::new(x, y, r)
new(x, y, r) ==
    [origin |-> Vector(x, y),
     position |-> Vector(Px(0), Px(0)),
     angle |-> Px(1),
     angular_velocity |-> Px(0),
     angular_acceleration |-> Px(0),
     r |-> r,
     m |-> Px(1),
     g |-> Dec(1, 2)]

\* let dumping = 0.995 - 0.0003 * self.m / 3.0
dumping(q) == FSub(Dec(995, 1000), FDiv(FMul(Dec(3, 10000), q.m), Px(3)))

\* self.angular_acceleration = -self.g * self.angle.sin() / self.r
accelerate(q) ==
    [q EXCEPT !.angular_acceleration =
                FDiv(FMul(FNeg(q.g), FSin(q.angle)), q.r)]

\* self.angular_velocity += self.angular_acceleration
gain(q) ==
    [q EXCEPT !.angular_velocity =
                FAdd(q.angular_velocity, q.angular_acceleration)]

\* self.angular_velocity *= dumping
damp(q, d) == [q EXCEPT !.angular_velocity = FMul(q.angular_velocity, d)]

\* self.angle += self.angular_velocity
turn(q) == [q EXCEPT !.angle = FAdd(q.angle, q.angular_velocity)]

\* self.angle += the angular_velocity `old`
turn_by(q, old) == [q EXCEPT !.angle = FAdd(q.angle, old)]

\* self.position.set(r * sin, r * cos); self.position.add(&self.origin)
place(q) ==
    [q EXCEPT !.position =
                add(set(q.position, FMul(q.r, FSin(q.angle)),
                        FMul(q.r, FCos(q.angle))),
                    q.origin)]

\* the same with the coordinates of the bob exchanged
place_swapped(q) ==
    [q EXCEPT !.position =
                add(set(q.position, FMul(q.r, FCos(q.angle)),
                        FMul(q.r, FSin(q.angle))),
                    q.origin)]

\* update with the coordinates of the bob exchanged
update_swapped(q) == place_swapped(turn(damp(gain(accelerate(q)), dumping(q))))

\* update advancing the angle by the velocity of the previous frame
update_old_velocity(q) ==
    place(turn_by(damp(gain(accelerate(q)), dumping(q)), q.angular_velocity))

\* Pendulum::update, as the value of the pendulum afterwards
update(q) == place(turn(damp(gain(accelerate(q)), dumping(q))))

\* Pendulum::distance
distance(q, other) ==
    FSqrt(FAdd(powi2(FSub(q.position.x, other.x)),
               powi2(FSub(q.position.y, other.y))))

-----------------------------------------------------------------------------
(* struct MyWindowHandler                                                  *)

\* the bob's radius, the threshold of both hit tests
BobRadius == 28

\* self.p.position.set(self.mouse_x, self.mouse_y)
snap(q, mx, my) == [q EXCEPT !.position = set(q.position, mx, my)]

\* self.p.r = ((position.x - origin.x).powi(2)
\*             + (position.y - origin.y).powi(2)).sqrt()
measure(q) ==
    [q EXCEPT !.r = FSqrt(FAdd(powi2(FSub(q.position.x, q.origin.x)),
                               powi2(FSub(q.position.y, q.origin.y))))]

\* r the horizontal offset instead of the distance
measure_signed(q) == [q EXCEPT !.r = FSub(q.position.x, q.origin.x)]

\* self.p.angular_acceleration = 0.0; self.p.angular_velocity = 0.0
still(q) == [q EXCEPT !.angular_acceleration = Px(0), !.angular_velocity = Px(0)]

\* self.p.angle = (-diff.y).atan2(diff.x) - PI / 2.0
aim(q, diff) ==
    [q EXCEPT !.angle = FSub(FAtan2(FNeg(diff.y), diff.x), FDiv(PI, Px(2)))]

\* the position of the bob put back to pos
unsnap(q, pos) == [q EXCEPT !.position = pos]

\* the grabbed branch without the two assignments of 0.0
follow_keeps_velocity(q, mx, my) ==
    aim(measure(snap(q, mx, my)),
        Vector(FSub(q.origin.x, mx), FSub(q.origin.y, my)))

\* the grabbed branch with r the horizontal offset instead of the distance
follow_signed_r(q, mx, my) ==
    aim(still(measure_signed(snap(q, mx, my))),
        Vector(FSub(q.origin.x, mx), FSub(q.origin.y, my)))

\* the grabbed branch leaving the bob where update() put it
follow_no_snap(q, mx, my) ==
    unsnap(aim(still(measure(snap(q, mx, my))),
               Vector(FSub(q.origin.x, mx), FSub(q.origin.y, my))),
           q.position)

\* the grabbed branch of on_draw, applied to the pendulum after update():
\* diff is computed first, from the origin and the pointer
follow(q, mx, my) ==
    aim(still(measure(snap(q, mx, my))),
        Vector(FSub(q.origin.x, mx), FSub(q.origin.y, my)))

\* if self.grabbed { ... }
branch(q, g, mx, my) == IF g THEN follow(q, mx, my) ELSE q

\* on_draw with update() called after the grabbed branch
drawn_follow_first(q, g, mx, my) == update(branch(q, g, mx, my))

\* the pendulum at the end of on_draw
drawn(q, g, mx, my) == branch(update(q), g, mx, my)

\* the hit test with <= for <
hit_le(q, mx, my) == ~FLt(Px(BobRadius), distance(q, Vector(mx, my)))
                        /\ ~IsNaN(distance(q, Vector(mx, my)))

\* the hit test written as !(distance >= 28.0), which NaN passes
hit_not_ge(q, mx, my) ==
    \/ IsNaN(distance(q, Vector(mx, my)))
    \/ FLt(distance(q, Vector(mx, my)), Px(BobRadius))

\* the hit test of on_mouse_button_up and on_mouse_button_down
hit(q, mx, my) == FLt(distance(q, Vector(mx, my)), Px(BobRadius))

\* scancodes: the five the handler matches, and one it does not
UP == 57416
DOWN == 57424
LEFT == 57419
RIGHT == 57421
KEY_R == 19
KEY_A == 30
Scancodes == {UP, DOWN, LEFT, RIGHT, KEY_R, KEY_A}

\* on_key_down with R also clearing the velocity and the acceleration
keyed_full_reset(q, scancode) ==
    CASE scancode = UP -> [q EXCEPT !.g = FAdd(q.g, Dec(1, 10))]
      [] scancode = DOWN -> [q EXCEPT !.g = FSub(q.g, Dec(1, 10))]
      [] scancode = LEFT -> [q EXCEPT !.m = FSub(q.m, Px(1))]
      [] scancode = RIGHT -> [q EXCEPT !.m = FAdd(q.m, Px(1))]
      [] scancode = KEY_R -> [q EXCEPT !.r = Px(200), !.angle = Px(1),
                                       !.angular_velocity = Px(0),
                                       !.angular_acceleration = Px(0)]
      [] OTHER -> q

\* the pendulum after on_key_down(scancode)
keyed(q, scancode) ==
    CASE scancode = UP -> [q EXCEPT !.g = FAdd(q.g, Dec(1, 10))]
      [] scancode = DOWN -> [q EXCEPT !.g = FSub(q.g, Dec(1, 10))]
      [] scancode = LEFT -> [q EXCEPT !.m = FSub(q.m, Px(1))]
      [] scancode = RIGHT -> [q EXCEPT !.m = FAdd(q.m, Px(1))]
      [] scancode = KEY_R -> [q EXCEPT !.r = Px(200), !.angle = Px(1)]
      [] OTHER -> q

\* MouseButton: Left, and one other
MouseLeft == "Left"
MouseRight == "Right"
Buttons == {MouseLeft, MouseRight}

\* pointer positions the host delivers, in whole pixels of the 800 x 480
\* window: the corner (the pointer before any move), the pivot, a point on
\* the bob's first swing, points below, right and left of the pivot, and a
\* point exactly one bob radius from the corner
Points ==
    {<<0, 0>>, <<400, 0>>, <<568, 108>>, <<400, 200>>, <<500, 0>>, <<330, 100>>,
     <<BobRadius, 0>>}

MaxFrames == 3
MaxKeys == 1

\* main(): the handler as constructed
Init ==
    /\ p = new(Px(400), Px(0), Px(200))
    /\ grabbed = FALSE
    /\ mouse_x = Px(0)
    /\ mouse_y = Px(0)
    /\ frames = 0
    /\ keys = 0
    /\ moved = FALSE
    /\ followed = FALSE

on_draw ==
    /\ frames < MaxFrames
    /\ frames' = frames + 1
    /\ UNCHANGED <<grabbed, mouse_x, mouse_y, keys>>
    /\ p' = drawn(p, grabbed, mouse_x, mouse_y)
    /\ moved' = FALSE
    /\ followed' = grabbed

on_key_down(scancode) ==
    /\ keys < MaxKeys
    /\ keys' = keys + 1
    /\ UNCHANGED <<grabbed, mouse_x, mouse_y, frames, moved, followed>>
    /\ p' = keyed(p, scancode)

on_mouse_move(position) ==
    /\ mouse_x' = position.x
    /\ mouse_y' = position.y
    /\ moved' = TRUE
    /\ UNCHANGED <<p, grabbed, frames, keys, followed>>

\* on_mouse_button_up without the assignment to angular_velocity
released_keeps_velocity(q, g, mx, my, button) ==
    IF button = MouseLeft /\ hit(q, mx, my)
    THEN [p |-> q, grabbed |-> FALSE]
    ELSE [p |-> q, grabbed |-> g]

\* the handler's state after on_mouse_button_up(button)
released(q, g, mx, my, button) ==
    IF button = MouseLeft /\ hit(q, mx, my)
    THEN [p |-> [q EXCEPT !.angular_velocity = Px(0)], grabbed |-> FALSE]
    ELSE [p |-> q, grabbed |-> g]

on_mouse_button_up(button) ==
    /\ UNCHANGED <<mouse_x, mouse_y, frames, keys, moved>>
    /\ p' = released(p, grabbed, mouse_x, mouse_y, button).p
    /\ grabbed' = released(p, grabbed, mouse_x, mouse_y, button).grabbed
    /\ followed' = (followed /\ grabbed')

\* the handler's state after on_mouse_button_down(button)
pressed(q, g, mx, my, button) ==
    IF button = MouseLeft /\ hit(q, mx, my)
    THEN [p |-> q, grabbed |-> TRUE]
    ELSE [p |-> q, grabbed |-> g]

on_mouse_button_down(button) ==
    /\ UNCHANGED <<mouse_x, mouse_y, frames, keys, followed>>
    /\ p' = pressed(p, grabbed, mouse_x, mouse_y, button).p
    /\ grabbed' = pressed(p, grabbed, mouse_x, mouse_y, button).grabbed
    /\ moved' = (moved /\ ~(button = MouseLeft /\ hit(p, mouse_x, mouse_y)))

Next ==
    \/ on_draw
    \/ \E scancode \in Scancodes : on_key_down(scancode)
    \/ \E pt \in Points : on_mouse_move(Vector(Px(pt[1]), Px(pt[2])))
    \/ \E button \in Buttons : on_mouse_button_up(button)
    \/ \E button \in Buttons : on_mouse_button_down(button)

Spec == Init /\ [][Next]_vars

-----------------------------------------------------------------------------
(* Properties                                                              *)

\* the tolerance of comparisons of positions, in millionths of a pixel
Tolerance == 1000
Millionth == 1000 * 1000

Close(a, b) ==
    /\ IsFin(a)
    /\ IsFin(b)
    /\ ~FLt(Dec(Tolerance, Millionth), FAbs(FSub(a, b)))

\* position == origin + r * (sin(angle), cos(angle)), within Tolerance
Derived(q) ==
    /\ Close(q.position.x, FAdd(q.origin.x, FMul(q.r, FSin(q.angle))))
    /\ Close(q.position.y, FAdd(q.origin.y, FMul(q.r, FCos(q.angle))))

Zero == F32(FALSE, 0)
Pointer == Vector(mouse_x, mouse_y)

\* C1 as stated: at the end of every frame, free or grabbed, in every
\* reachable state, position == origin + r*(sin(angle), cos(angle)) within
\* tolerance.
C1_DerivedPositionEveryFrame == [][on_draw => Derived(p')]_vars

\* C1 amended: at the end of every frame that leaves the angle finite (every
\* grabbed frame, the pointer on the pivot included, and every free frame of
\* a finite state with r # 0), position == origin + r*(sin(angle),
\* cos(angle)) within tolerance.
C1_DerivedPositionFiniteFrame ==
    [][on_draw /\ IsFin(p'.angle) => Derived(p')]_vars

\* C1 witness: a frame was drawn with the bob held on the pivot (r == 0) and
\* the derived position holds there.
C1_Witness ==
    /\ frames > 0
    /\ followed
    /\ p.r = Zero
    /\ p.position = p.origin
    /\ Derived(p)

\* C2 as stated: in every reachable state where grabbed is true, the one
\* right after the pointer-down that begins the grab included,
\* angular_velocity == 0 and angular_acceleration == 0.
C2_GrabbedImpliesZero ==
    grabbed => p.angular_velocity = Zero /\ p.angular_acceleration = Zero

\* C2 amended: in every reachable state where grabbed is true and a frame
\* was drawn since grabbed became true, angular_velocity == 0 and
\* angular_acceleration == 0.
C2_FollowedImpliesZero ==
    grabbed /\ followed =>
        p.angular_velocity = Zero /\ p.angular_acceleration = Zero

\* C2 witness: the bob is held, a grabbed frame was drawn, and events (a key,
\* a pointer move) arrived after it.
C2_Witness == grabbed /\ followed /\ moved /\ keys > 0 /\ p.r # Px(200)

\* C3: the state after a grabbed frame is position = pointer, r =
\* distance(origin, pointer), angular_velocity = angular_acceleration = 0,
\* angle = atan2(-diff.y, diff.x) - pi/2 with diff = origin - pointer; origin,
\* m and g are kept, and nothing of it depends on the angle,
\* angular_velocity, angular_acceleration, position or r before the frame.
C3_GrabbedFrame ==
    [][on_draw /\ grabbed =>
        p' = [origin |-> p.origin,
              position |-> Pointer,
              angle |-> FSub(FAtan2(FNeg(FSub(p.origin.y, mouse_y)),
                                         FSub(p.origin.x, mouse_x)),
                             FDiv(PI, Px(2))),
              angular_velocity |-> Zero,
              angular_acceleration |-> Zero,
              r |-> FSqrt(FAdd(powi2(FSub(mouse_x, p.origin.x)),
                               powi2(FSub(mouse_y, p.origin.y)))),
              m |-> p.m,
              g |-> p.g]]_vars

\* C3 witness: a grabbed frame was drawn with the pointer at (400, 200): the
\* bob is there, r == 200 and angle == 0.
C3_Witness ==
    /\ followed
    /\ ~moved
    /\ p.position = Vector(Px(400), Px(200))
    /\ p.r = Px(200)
    /\ p.angle = Zero

\* C4: in every reachable state, a release of the primary button with the
\* pointer less than 28.0 from the bob sets grabbed = false and
\* angular_velocity = 0 and leaves every other field as it was; any other
\* release changes nothing.
C4_PointerUp ==
    \A button \in Buttons :
        released(p, grabbed, mouse_x, mouse_y, button) =
            IF button = MouseLeft /\ FLt(distance(p, Pointer), Px(BobRadius))
            THEN [p |-> [p EXCEPT !.angular_velocity = Zero], grabbed |-> FALSE]
            ELSE [p |-> p, grabbed |-> grabbed]

\* C4 witness: the swinging bob was released: it is free, its velocity is 0
\* and its acceleration is still that of the last free frame.
C4_Witness ==
    /\ ~grabbed
    /\ frames > 0
    /\ p.angular_velocity = Zero
    /\ IsFin(p.angular_acceleration)
    /\ p.angular_acceleration # Zero

\* C5: in every reachable state, a press of the primary button sets
\* grabbed = true iff the distance from the bob to the last-known pointer
\* position is strictly less than 28.0, and changes no other field; any
\* other press changes nothing.
C5_PointerDown ==
    \A button \in Buttons :
        pressed(p, grabbed, mouse_x, mouse_y, button) =
            [p |-> p,
             grabbed |-> IF button = MouseLeft
                            /\ FLt(distance(p, Pointer), Px(BobRadius))
                         THEN TRUE
                         ELSE grabbed]

\* C5 witness: the swinging bob was grabbed and no frame was drawn since: it
\* still has the velocity of the last free frame.
C5_Witness ==
    /\ grabbed
    /\ ~followed
    /\ frames > 0
    /\ IsFin(p.angular_velocity)
    /\ p.angular_velocity # Zero

\* C6: key R yields r == 200.0 and angle == 1.0 from any state, free or
\* grabbed, and leaves angular_velocity, angular_acceleration, m, g,
\* position, origin and grabbed as they were.
C6_Reset ==
    [][on_key_down(KEY_R) =>
        /\ p'.r = Px(200)
        /\ p'.angle = Px(1)
        /\ p' = [p EXCEPT !.r = Px(200), !.angle = Px(1)]
        /\ grabbed' = grabbed]_vars

\* C6 witness: R was pressed on the swinging pendulum: r == 200, angle == 1
\* and the velocity is that of the last free frame.
C6_Witness ==
    /\ keys > 0
    /\ frames > 0
    /\ p.r = Px(200)
    /\ p.angle = Px(1)
    /\ IsFin(p.angular_velocity)
    /\ p.angular_velocity # Zero

\* C7: r is a number >= 0 in every reachable state.
C7_RadiusNonNegative == ~IsNaN(p.r) /\ ~FLt(p.r, Zero)

\* C7 witness: the bob was grabbed on the pivot, so r == 0.
C7_Witness == frames > 0 /\ p.r = Zero /\ grabbed

\* C8: a free frame computes damping = 0.995 - 0.0003*m/3.0,
\* angular_acceleration = -g*sin(angle)/r, angular_velocity =
\* (angular_velocity + angular_acceleration) * damping, angle = angle +
\* the new angular_velocity, position = origin + r*(sin, cos)(the new
\* angle), and keeps r, m, g, origin and grabbed.
C8_FreeFrame ==
    [][on_draw /\ ~grabbed =>
        LET damping == FSub(Dec(995, 1000), FDiv(FMul(Dec(3, 10000), p.m), Px(3)))
            acc == FDiv(FMul(FNeg(p.g), FSin(p.angle)), p.r)
            vel == FMul(FAdd(p.angular_velocity, acc), damping)
            ang == FAdd(p.angle, vel)
        IN /\ p' = [origin |-> p.origin,
                    position |->
                        Vector(FAdd(FMul(p.r, FSin(ang)), p.origin.x),
                               FAdd(FMul(p.r, FCos(ang)), p.origin.y)),
                    angle |-> ang,
                    angular_velocity |-> vel,
                    angular_acceleration |-> acc,
                    r |-> p.r,
                    m |-> p.m,
                    g |-> p.g]
           /\ grabbed' = grabbed]_vars

\* C8 witness: two free frames were drawn: the velocity is no longer the
\* first frame's acceleration times the damping.
C8_Witness ==
    /\ frames >= 2
    /\ ~grabbed
    /\ IsFin(p.angular_velocity)
    /\ p.angular_velocity # Zero
    /\ p.angular_velocity # FMul(p.angular_acceleration, dumping(p))

\* C9: in every reachable state where grabbed is true, a release of the
\* primary button ends the grab (grabbed = false, angular_velocity = 0) if
\* no pointer move arrived since the last frame or since the press that
\* passed its hit test; it leaves grabbed true only if the pointer has moved
\* since and is at least 28.0 from the bob.
C9_ReleaseWithoutMove ==
    grabbed =>
        LET after == released(p, grabbed, mouse_x, mouse_y, MouseLeft)
        IN /\ ~moved => ~after.grabbed /\ after.p.angular_velocity = Zero
           /\ after.grabbed =>
                moved /\ ~FLt(distance(p, Pointer), Px(BobRadius))

\* C9 witness: the bob was dragged to the pointer, and released with the
\* pointer still where the last frame put the bob.
C9_Witness ==
    /\ ~grabbed
    /\ ~moved
    /\ frames > 0
    /\ p.position = Pointer
    /\ p.angular_acceleration = Zero
    /\ p.angular_velocity = Zero

\* the state after a free frame with r == 0: the bob is free, and its
\* velocity and position are not finite
Stuck(q, g) ==
    /\ ~g
    /\ ~IsFin(q.angular_velocity)
    /\ ~IsFin(q.position.x)
    /\ ~IsFin(q.position.y)

\* C10 as stated: once a free frame with r == 0 has made angular_velocity,
\* angle and position non-finite, they are non-finite in every later state.
C10_NonFiniteAbsorbing ==
    [][Stuck(p, grabbed) /\ ~IsFin(p.angle) =>
        Stuck(p', grabbed') /\ ~IsFin(p'.angle)]_vars

\* C10 amended: once a free frame with r == 0 has made angular_velocity and
\* position non-finite, they stay non-finite and grabbed stays false in
\* every later state; angle is non-finite after every frame, and finite in
\* between only from key R (angle = 1.0) until the next frame.
C10_StuckAbsorbing ==
    [][Stuck(p, grabbed) =>
        /\ Stuck(p', grabbed')
        /\ on_draw => ~IsFin(p'.angle)
        /\ IsFin(p'.angle) => IsFin(p.angle) \/ on_key_down(KEY_R)]_vars

\* C10 witness: after the non-finite state was reached, R was pressed and a
\* frame drawn: r is 200 again and velocity, angle and position are
\* non-finite.
C10_Witness ==
    /\ Stuck(p, grabbed)
    /\ p.r = Px(200)
    /\ ~IsFin(p.angle)

=============================================================================
